---- MODULE Spec2Model ----
(***************************************************************************)
(* Model of the simulated Dagster asset graph of pipeline_xml.py and       *)
(* pipeline_json.py:                                                       *)
(*                                                                         *)
(*     harvest_terminology -+                                              *)
(*                          +-> objects_transform --> objects_output       *)
(*     harvest_objects -----+                                              *)
(*     check_objects_transform (asset check)                               *)
(*                                                                         *)
(* Tables are records [columns, structs, rows]: `columns' is the set of    *)
(* column names of the frame, `structs' the list columns whose dtype is    *)
(* List(Struct) and `rows' the sequence of row records.  A nullable string *)
(* is the string itself or None; a nullable integer or a nullable list     *)
(* cell is Null (<<>>) or Some(v) (<<v>>).  Dimension values are floats in *)
(* the source and are modelled in tenths (0.5 is 5, 1 is 10).              *)
(***************************************************************************)
EXTENDS Integers, Sequences, FiniteSets, TLC

\* ------------------------------------------------------------------------
\* Bounds of the model
\* ------------------------------------------------------------------------
MaxRows == 2

MaxTerms == 2

MaxElems == 2

MaxDeviations == 2

\* ------------------------------------------------------------------------
\* Values
\* ------------------------------------------------------------------------
None == "None"

Null == <<>>

Some(v) == <<v>>

IsNull(c) == c = Null

Value(c) == c[1]

Range(s) == {s[i] : i \in 1..Len(s)}

SeqsUpTo(S, n) == UNION {[1..k -> S] : k \in 0..n}

RECURSIVE Flatten(_)
Flatten(ss) == IF ss = <<>> THEN <<>> ELSE Head(ss) \o Flatten(Tail(ss))

RECURSIVE SumSeq(_)
SumSeq(s) == IF s = <<>> THEN 0 ELSE Head(s) + SumSeq(Tail(s))

\* Number of indices of s whose element satisfies Test
Count(s, Test(_)) == Cardinality({i \in 1..Len(s) : Test(s[i])})

Reverse(s) == [i \in 1..Len(s) |-> s[Len(s) + 1 - i]]

\* Row orders an operation that guarantees no order may return: the order
\* of its input, or the reverse
Orderings(s) == {s, Reverse(s)}

\* ------------------------------------------------------------------------
\* Frames: pl.DataFrame(records)
\* ------------------------------------------------------------------------
TermColumns == {"term_id", "term_type", "label"}

ObjectColumns ==
    {"object_id", "title", "date_made", "credit_line", "department",
     "constituents", "classification_ids", "dimensions", "media"}

ListColumns == {"constituents", "classification_ids", "dimensions", "media"}

TransformColumns ==
    {"object_id", "title", "date_made", "credit_line", "department",
     "dimensions", "media", "classifications", "constituents"}

\* pl.DataFrame(rows): no record gives a frame without columns; a list
\* column whose lists are all empty is inferred as List(Null), not as
\* List(Struct)
DataFrame(records, columns, lists) ==
    [columns |-> IF records = <<>> THEN {} ELSE columns,
     structs |-> {c \in lists : \E i \in 1..Len(records) : Len(records[i][c]) > 0},
     rows    |-> records]


\* ------------------------------------------------------------------------
\* Polars relational operators used by objects_transform
\* ------------------------------------------------------------------------

\* .select(a, pl.col(b).alias(c)) on the terminology frame: one row [k, v]
\* per term, in order
SelectAlias(rows, keycol, valcol) ==
    [i \in 1..Len(rows) |-> [k |-> rows[i][keycol], v |-> rows[i][valcol]]]

\* objects.select("object_id", col).filter(pl.col(col).list.len() > 0)
SelectNonEmpty(rows, col) ==
    SelectSeq([i \in 1..Len(rows) |->
                  [object_id |-> rows[i].object_id, list |-> rows[i][col]]],
              LAMBDA r : Len(r.list) > 0)

\* .explode(col).unnest(col): one row per list element, carrying object_id
ExplodeUnnest(sel) ==
    Flatten([i \in 1..Len(sel) |->
                [j \in 1..Len(sel[i].list) |->
                    [object_id |-> sel[i].object_id] @@ sel[i].list[j]]])

\* The rows of left.join(right, on=key, how="left"), left row by left row:
\* every match of the key in `right' yields one row, no match yields one
\* row with a null; a null key matches nothing
LeftJoinRows(left, right, key, newcol) ==
    Flatten([i \in 1..Len(left) |->
        LET m == SelectSeq(right,
                     LAMBDA r : left[i][key] # None /\ r.k = left[i][key])
        IN  IF m = <<>>
            THEN << left[i] @@ (newcol :> None) >>
            ELSE [j \in 1..Len(m) |-> left[i] @@ (newcol :> m[j].v)]])

\* join(..., how="left") is called without maintain_order, which leaves the
\* order of the result to the engine: the rows are those of LeftJoinRows in
\* one of the Orderings
LeftJoin(left, right, key, newcol) ==
    Orderings(LeftJoinRows(left, right, key, newcol))

\* The object_ids of flat, in order of first appearance
RECURSIVE FirstKeys(_, _)
FirstKeys(flat, seen) ==
    IF flat = <<>> THEN <<>>
    ELSE IF Head(flat).object_id \in seen THEN FirstKeys(Tail(flat), seen)
    ELSE <<Head(flat).object_id>>
         \o FirstKeys(Tail(flat), seen \cup {Head(flat).object_id})

\* .group_by("object_id").agg(pl.struct(fields)): one row per object_id,
\* the structs of its rows in the order the rows have in flat
GroupRows(flat, Struct(_)) ==
    LET keys == FirstKeys(flat, {})
    IN  [g \in 1..Len(keys) |->
            LET mine == SelectSeq(flat, LAMBDA r : r.object_id = keys[g])
            IN  [k |-> keys[g],
                 v |-> [j \in 1..Len(mine) |-> Struct(mine[j])]]]

ClassificationStruct(r) ==
    [type_label |-> r.type_label, term_label |-> r.term_label]

ConstituentStruct(r) ==
    [name |-> r.name, role |-> r.role, birth_year |-> r.birth_year,
     nationality |-> r.nationality]

\* The rows of the assembling left join on object_id: a base row without a
\* group gets a null cell
AssembleRows(base, groups, newcol) ==
    Flatten([i \in 1..Len(base) |->
        LET m == SelectSeq(groups, LAMBDA g : g.k = base[i].object_id)
        IN  IF m = <<>>
            THEN << base[i] @@ (newcol :> Null) >>
            ELSE [j \in 1..Len(m) |-> base[i] @@ (newcol :> Some(m[j].v))]])

\* pl.col(c).fill_null([])
FillNull(cell) == IF IsNull(cell) THEN Some(<<>>) ELSE cell

\* ------------------------------------------------------------------------
\* objects_transform
\* ------------------------------------------------------------------------

\* The collect raises: a referenced column is missing, or a column to unnest
\* is not a list of structs
TransformRaises(terminology, objects) ==
    \/ ~(TermColumns \subseteq terminology.columns)
    \/ ~(ObjectColumns \subseteq objects.columns)
    \/ ~({"classification_ids", "constituents"} \subseteq objects.structs)

classifications_flat(objects) ==
    ExplodeUnnest(SelectNonEmpty(objects.rows, "classification_ids"))

\* The possible frames classifications_nested
classifications_nested(terminology, objects) ==
    LET type_labels == SelectAlias(terminology.rows, "term_id", "label")
        term_labels == SelectAlias(terminology.rows, "term_id", "label")
    IN  UNION {UNION {Orderings(GroupRows(j2, ClassificationStruct)) :
                  j2 \in LeftJoin(j1, term_labels, "term_id", "term_label")} :
              j1 \in LeftJoin(classifications_flat(objects), type_labels,
                              "type_id", "type_label")}

\* Variant: the nationality lookup without the term_type filter
NationalityLookupAnyType(terminology) ==
    SelectAlias(terminology.rows, "term_id", "label")

nationality_lookup(terminology) ==
    SelectAlias(SelectSeq(terminology.rows,
                          LAMBDA t : t.term_type = "nationality"),
                "term_id", "label")

constituents_flat(objects) ==
    ExplodeUnnest(SelectNonEmpty(objects.rows, "constituents"))

\* The possible frames constituents_nested
constituents_nested(terminology, objects) ==
    UNION {Orderings(GroupRows(j, ConstituentStruct)) :
              j \in LeftJoin(constituents_flat(objects),
                             nationality_lookup(terminology),
                             "nationality_id", "nationality")}

\* Variant: every row is given the title of the first row
BaseRowsFirstTitle(objects) ==
    [i \in 1..Len(objects.rows) |->
        [object_id   |-> objects.rows[i].object_id,
         title       |-> objects.rows[1].title,
         date_made   |-> objects.rows[i].date_made,
         credit_line |-> objects.rows[i].credit_line,
         department  |-> objects.rows[i].department,
         dimensions  |-> objects.rows[i].dimensions,
         media       |-> objects.rows[i].media]]

\* objects.select(the seven pass-through columns)
BaseRows(objects) ==
    [i \in 1..Len(objects.rows) |->
        [object_id   |-> objects.rows[i].object_id,
         title       |-> objects.rows[i].title,
         date_made   |-> objects.rows[i].date_made,
         credit_line |-> objects.rows[i].credit_line,
         department  |-> objects.rows[i].department,
         dimensions  |-> objects.rows[i].dimensions,
         media       |-> objects.rows[i].media]]

\* .with_columns(fill_null([]), fill_null([]))
WithFilledNulls(rows) ==
    [i \in 1..Len(rows) |->
        [rows[i] EXCEPT !.classifications = FillNull(@),
                        !.constituents = FillNull(@)]]

\* The possible row sequences of `enriched'
EnrichedRows(terminology, objects) ==
    UNION {UNION {UNION {
        {WithFilledNulls(a2) :
            a2 \in Orderings(AssembleRows(a1, kn, "constituents"))} :
          kn \in constituents_nested(terminology, objects)} :
        a1 \in Orderings(AssembleRows(BaseRows(objects), cn, "classifications"))} :
      cn \in classifications_nested(terminology, objects)}

\* The frames objects_transform can return for these inputs (none when the
\* collect raises)
objects_transform(terminology, objects) ==
    IF TransformRaises(terminology, objects) THEN {}
    ELSE {[columns |-> TransformColumns,
           structs |-> (objects.structs \cap {"dimensions", "media"})
                           \cup {"classifications", "constituents"},
           rows    |-> rs] : rs \in EnrichedRows(terminology, objects)}

\* ------------------------------------------------------------------------
\* ObjectTransformSchema: the declared checks, row by row
\* ------------------------------------------------------------------------
\* A check expression evaluates to "true", "false" or "null" for a row; the
\* list aggregations any/all/sum/min/max skip null elements.

Not3(a) == IF a = "null" THEN "null" ELSE IF a = "true" THEN "false" ELSE "true"

Or3(a, b) ==
    IF a = "true" \/ b = "true" THEN "true"
    ELSE IF a = "null" \/ b = "null" THEN "null" ELSE "false"

And3(a, b) == Not3(Or3(Not3(a), Not3(b)))

Bool3(b) == IF b THEN "true" ELSE "false"

\* pl.col(c).list.len().gt(0)
ListLenGt0(cell) == IF IsNull(cell) THEN "null" ELSE Bool3(Len(Value(cell)) > 0)

\* .list.eval(pl.element().struct.field(f) == v).list.any()
AnyFieldEq(list, f, v) == Bool3(\E i \in 1..Len(list) : list[i][f] = v)

\* .list.eval(pl.element().struct.field(f) == v).list.all()
AllFieldEq(list, f, v) ==
    Bool3(\A i \in 1..Len(list) : list[i][f] = None \/ list[i][f] = v)

\* The non-null integers of field f, for .list.min() and .list.max()
FieldInts(list, f) ==
    {Value(list[i][f]) : i \in {j \in 1..Len(list) : ~IsNull(list[j][f])}}

SetMin(S) == CHOOSE x \in S : \A y \in S : x <= y

SetMax(S) == CHOOSE x \in S : \A y \in S : x >= y

\* Variant: list.len().ge(0) in place of list.len().gt(0)
HasConstituentsGe0(row) ==
    IF IsNull(row.constituents) THEN "null"
    ELSE Bool3(Len(Value(row.constituents)) >= 0)

has_constituents(row) == ListLenGt0(row.constituents)

has_media(row) == Bool3(Len(row.media) > 0)

\* Dimension values are in tenths: .gt(1) is > DimensionUnit
DimensionUnit == 10

dimension_values_positive(row) ==
    LET vals == {row.dimensions[i].value : i \in 1..Len(row.dimensions)}
    IN  IF vals = {} THEN "null" ELSE Bool3(SetMin(vals) > DimensionUnit)

has_height(row) == AnyFieldEq(row.dimensions, "type", "height")

units_consistent(row) == AllFieldEq(row.dimensions, "unit", "cm")

\* A url is Null or Some([scheme, rest]), standing for scheme ++ "://" ++ rest
urls_are_https(row) ==
    Bool3(\A i \in 1..Len(row.media) :
             IsNull(row.media[i].url) \/ Value(row.media[i].url).scheme = "https")

has_primary_image(row) ==
    Bool3(Count(row.media, LAMBDA m : m.type = "primary") = 1)

constituent_names_not_empty(row) ==
    LET has_items == ListLenGt0(row.constituents)
        names_ok ==
            IF IsNull(row.constituents) THEN "null"
            ELSE Bool3(\A i \in 1..Len(Value(row.constituents)) :
                          Value(row.constituents)[i].name = None
                          \/ Len(Value(row.constituents)[i].name) > 0)
    IN  Or3(Not3(has_items), names_ok)

\* Variant: has_artist without the has_items guard
HasArtistUnguarded(row) ==
    IF IsNull(row.constituents) THEN "null"
    ELSE AnyFieldEq(Value(row.constituents), "role", "artist")

has_artist(row) ==
    LET has_items == ListLenGt0(row.constituents)
        has_artist_role ==
            IF IsNull(row.constituents) THEN "null"
            ELSE AnyFieldEq(Value(row.constituents), "role", "artist")
    IN  Or3(Not3(has_items), has_artist_role)

classification_labels_resolved(row) ==
    LET has_items == ListLenGt0(row.classifications)
        no_nulls ==
            IF IsNull(row.classifications) THEN "null"
            ELSE Bool3(\A i \in 1..Len(Value(row.classifications)) :
                          Value(row.classifications)[i].term_label # None)
    IN  Or3(Not3(has_items), no_nulls)

sculpture_has_depth(row) ==
    LET is_sculpture ==
            IF row.department = None THEN "null"
            ELSE Bool3(row.department = "Sculpture")
        has_depth == AnyFieldEq(row.dimensions, "type", "depth")
    IN  Or3(Not3(is_sculpture), has_depth)

\* Variant: the latest birth year may equal the year the work was made
BirthNotAfterCreation(row) ==
    LET years == IF IsNull(row.constituents) THEN {}
                 ELSE FieldInts(Value(row.constituents), "birth_year")
        both_known == And3(Bool3(~IsNull(row.date_made)), Bool3(years # {}))
        valid_where_known ==
            IF IsNull(row.date_made) \/ years = {} THEN "null"
            ELSE Bool3(SetMax(years) <= Value(row.date_made))
    IN  Or3(Not3(both_known), valid_where_known)

birth_before_creation(row) ==
    LET years == IF IsNull(row.constituents) THEN {}
                 ELSE FieldInts(Value(row.constituents), "birth_year")
        both_known == And3(Bool3(~IsNull(row.date_made)), Bool3(years # {}))
        valid_where_known ==
            IF IsNull(row.date_made) \/ years = {} THEN "null"
            ELSE Bool3(SetMax(years) < Value(row.date_made))
    IN  Or3(Not3(both_known), valid_where_known)

\* The dataframe checks in declaration order
CheckNames ==
    <<"has_at_least_one_constituent", "has_at_least_one_image",
      "all_dimension_values_gt_1", "has_height_dimension", "all_units_are_cm",
      "all_urls_are_https", "has_primary_image", "no_empty_constituent_names",
      "has_at_least_one_artist", "no_null_labels_in_classifications",
      "sculpture_must_have_depth", "constituent_born_before_artwork">>

CheckResult(name, row) ==
    CASE name = "has_at_least_one_constituent" -> has_constituents(row)
      [] name = "has_at_least_one_image" -> has_media(row)
      [] name = "all_dimension_values_gt_1" -> dimension_values_positive(row)
      [] name = "has_height_dimension" -> has_height(row)
      [] name = "all_units_are_cm" -> units_consistent(row)
      [] name = "all_urls_are_https" -> urls_are_https(row)
      [] name = "has_primary_image" -> has_primary_image(row)
      [] name = "no_empty_constituent_names" -> constituent_names_not_empty(row)
      [] name = "has_at_least_one_artist" -> has_artist(row)
      [] name = "no_null_labels_in_classifications" ->
             classification_labels_resolved(row)
      [] name = "sculpture_must_have_depth" -> sculpture_has_depth(row)
      [] name = "constituent_born_before_artwork" -> birth_before_creation(row)

\* The list column whose elements a check reads as structs
CheckStructColumn(name) ==
    CASE name \in {"all_dimension_values_gt_1", "has_height_dimension",
                   "all_units_are_cm", "sculpture_must_have_depth"} -> "dimensions"
      [] name \in {"all_urls_are_https", "has_primary_image"} -> "media"
      [] name \in {"no_empty_constituent_names", "has_at_least_one_artist",
                   "constituent_born_before_artwork"} -> "constituents"
      [] name = "no_null_labels_in_classifications" -> "classifications"
      [] OTHER -> None

\* ------------------------------------------------------------------------
\* Pandera failure cases and check_objects_transform
\* ------------------------------------------------------------------------
SchemaName == "ObjectTransformSchema"

\* Columns of the validated frame, in frame order
ColumnOrder ==
    <<"object_id", "title", "date_made", "credit_line", "department",
      "dimensions", "media", "classifications", "constituents">>

RECURSIVE Digits(_)
Digits(n) == IF n < 0 THEN 1 + Digits(-n)
             ELSE IF n < 10 THEN 1 ELSE 1 + Digits(n \div 10)

JsonStr(s) == IF s = None THEN 4 ELSE Len(s) + 2

JsonInt(c) == IF IsNull(c) THEN 4 ELSE Digits(Value(c))

\* A float in tenths renders as its integer part, a point and one digit
JsonFloat(v) == Digits(v \div DimensionUnit) + 2

\* A JSON array of n objects of the given widths
JsonArray(widths) ==
    2 + SumSeq(widths) + (IF Len(widths) > 1 THEN Len(widths) - 1 ELSE 0)

JsonUrl(u) ==
    IF IsNull(u) THEN 4 ELSE Len(Value(u).scheme) + 3 + Len(Value(u).rest) + 2

\* Width of the JSON rendering of the value of a column of a row
JsonWidth(row, c) ==
    CASE c \in {"object_id", "title", "credit_line", "department"} ->
             JsonStr(row[c])
      [] c = "date_made" -> JsonInt(row[c])
      [] c = "dimensions" ->
             JsonArray([i \in 1..Len(row[c]) |->
                 26 + JsonStr(row[c][i].type) + JsonFloat(row[c][i].value)
                    + JsonStr(row[c][i].unit)])
      [] c = "media" ->
             JsonArray([i \in 1..Len(row[c]) |->
                 27 + JsonStr(row[c][i].type) + JsonUrl(row[c][i].url)
                    + JsonStr(row[c][i].caption)])
      [] c = "classifications" ->
             IF IsNull(row[c]) THEN 4
             ELSE JsonArray([i \in 1..Len(Value(row[c])) |->
                 29 + JsonStr(Value(row[c])[i].type_label)
                    + JsonStr(Value(row[c])[i].term_label)])
      [] c = "constituents" ->
             IF IsNull(row[c]) THEN 4
             ELSE JsonArray([i \in 1..Len(Value(row[c])) |->
                 46 + JsonStr(Value(row[c])[i].name)
                    + JsonStr(Value(row[c])[i].role)
                    + JsonInt(Value(row[c])[i].birth_year)
                    + JsonStr(Value(row[c])[i].nationality)])

\* Offset at which the value of the k-th column ends in the JSON object of
\* the row: each column costs a separator, its quoted name, a colon and its
\* value
RECURSIVE JsonEnd(_, _)
JsonEnd(row, k) ==
    IF k = 0 THEN 0
    ELSE JsonEnd(row, k - 1) + Len(ColumnOrder[k]) + 4
         + JsonWidth(row, ColumnOrder[k])

FailureCaseCap == 80

\* Variant: the failure case is reported whole, without the [:80] cut
FailureCaseUncut(fc) == IF "row" \in DOMAIN fc THEN fc.row ELSE fc

\* str(failure_case)[:80]: of the JSON object of a failing row, the columns
\* whose value lies within the cap, with their values; an offending value
\* or an error text as it is
FailureCase(fc) ==
    IF "row" \in DOMAIN fc
    THEN LET shown == {ColumnOrder[k] : k \in {j \in 1..Len(ColumnOrder) :
                                            JsonEnd(fc.row, j) <= FailureCaseCap}}
         IN  [c \in shown |-> fc.row[c]]
    ELSE fc


\* Indices of the rows of a frame that satisfy Test, in row order
RowsWhere(rows, Test(_)) ==
    SelectSeq([i \in 1..Len(rows) |-> i], LAMBDA i : Test(rows[i]))

\* Failure cases of a column-level rule: one per offending row, carrying
\* the offending value
ColumnFailures(rows, column, check, Bad(_)) ==
    LET idx == RowsWhere(rows, Bad)
    IN  [k \in 1..Len(idx) |->
            [column |-> column, check |-> check,
             failure_case |-> [value |-> rows[idx[k]][column]]]]

\* Variant of the field rules: date_made is checked with gt=0 in place of
\* ge=0
FieldFailuresGt0(rows) ==
    ColumnFailures(rows, "object_id", "not_nullable",
                   LAMBDA r : r.object_id = None)
    \o ColumnFailures(rows, "object_id", "field_uniqueness",
                   LAMBDA r : Count(rows, LAMBDA q : q.object_id = r.object_id) > 1)
    \o ColumnFailures(rows, "title", "not_nullable", LAMBDA r : r.title = None)
    \o ColumnFailures(rows, "title", "str_length(1, None)",
                   LAMBDA r : r.title # None /\ Len(r.title) < 1)
    \o ColumnFailures(rows, "date_made", "greater_than_or_equal_to(0)",
                   LAMBDA r : ~IsNull(r.date_made) /\ Value(r.date_made) <= 0)
    \o ColumnFailures(rows, "date_made", "less_than_or_equal_to(2100)",
                   LAMBDA r : ~IsNull(r.date_made) /\ Value(r.date_made) > 2100)
    \o ColumnFailures(rows, "credit_line", "not_nullable",
                   LAMBDA r : r.credit_line = None)
    \o ColumnFailures(rows, "department", "not_nullable",
                   LAMBDA r : r.department = None)
    \o ColumnFailures(rows, "classifications", "not_nullable",
                   LAMBDA r : IsNull(r.classifications))
    \o ColumnFailures(rows, "constituents", "not_nullable",
                   LAMBDA r : IsNull(r.constituents))

\* pa.Field rules of the scalar columns and nullability of every column
FieldFailures(rows) ==
    ColumnFailures(rows, "object_id", "not_nullable",
                   LAMBDA r : r.object_id = None)
    \o ColumnFailures(rows, "object_id", "field_uniqueness",
                   LAMBDA r : Count(rows, LAMBDA q : q.object_id = r.object_id) > 1)
    \o ColumnFailures(rows, "title", "not_nullable", LAMBDA r : r.title = None)
    \o ColumnFailures(rows, "title", "str_length(1, None)",
                   LAMBDA r : r.title # None /\ Len(r.title) < 1)
    \o ColumnFailures(rows, "date_made", "greater_than_or_equal_to(0)",
                   LAMBDA r : ~IsNull(r.date_made) /\ Value(r.date_made) < 0)
    \o ColumnFailures(rows, "date_made", "less_than_or_equal_to(2100)",
                   LAMBDA r : ~IsNull(r.date_made) /\ Value(r.date_made) > 2100)
    \o ColumnFailures(rows, "credit_line", "not_nullable",
                   LAMBDA r : r.credit_line = None)
    \o ColumnFailures(rows, "department", "not_nullable",
                   LAMBDA r : r.department = None)
    \o ColumnFailures(rows, "classifications", "not_nullable",
                   LAMBDA r : IsNull(r.classifications))
    \o ColumnFailures(rows, "constituents", "not_nullable",
                   LAMBDA r : IsNull(r.constituents))

\* Failure cases of one dataframe check: when its expression cannot be
\* evaluated (the column it reads as structs is not a list of structs) the
\* exception is reported as one failure case; otherwise one failure case per
\* row for which the check is false (null counts as passed), the failing
\* row serialized as JSON
CheckFailures(frame, name) ==
    IF CheckStructColumn(name) # None /\ CheckStructColumn(name) \notin frame.structs
    THEN << [column |-> SchemaName, check |-> name,
             failure_case |-> [error |-> "expected struct"]] >>
    ELSE LET idx == RowsWhere(frame.rows,
                              LAMBDA r : CheckResult(name, r) = "false")
         IN  [k \in 1..Len(idx) |->
                 [column |-> SchemaName, check |-> name,
                  failure_case |-> [row |-> frame.rows[idx[k]]]]]

\* e.failure_cases of ObjectTransformSchema.validate(frame, lazy=True)
\* Variant: validation stops at the first check that reports a failure,
\* as with lazy=False
RECURSIVE ChecksFailFast(_, _)
ChecksFailFast(frame, names) ==
    IF names = <<>> THEN <<>>
    ELSE IF CheckFailures(frame, Head(names)) # <<>>
         THEN CheckFailures(frame, Head(names))
         ELSE ChecksFailFast(frame, Tail(names))

\* The failure cases of the dataframe checks run in the order `names':
\* with lazy=True every check runs and reports, whatever the others found
ChecksIn(frame, names) ==
    Flatten([n \in 1..Len(names) |-> CheckFailures(frame, names[n])])

\* Variant: every dataframe check is evaluated a second time
FailureCasesTwice(frame) ==
    FieldFailures(frame.rows) \o ChecksIn(frame, CheckNames \o CheckNames)

FailureCases(frame) ==
    FieldFailures(frame.rows) \o ChecksIn(frame, CheckNames)

\* Variant: passed tells only whether the field rules hold, while the
\* records of every failure are returned
CheckFieldRulesDecide(frame) ==
    LET cases == FailureCases(frame)
    IN  [passed |-> FieldFailures(frame.rows) = <<>>,
         errors |-> [k \in 1..Len(cases) |->
                        [column |-> cases[k].column,
                         check |-> cases[k].check,
                         failure_case |-> FailureCase(cases[k].failure_case)]]]

\* check_objects_transform: (True, []) when validate raises nothing,
\* otherwise (False, errors)
check_objects_transform(frame) ==
    LET cases == FailureCases(frame)
    IN  IF cases = <<>> THEN [passed |-> TRUE, errors |-> <<>>]
        ELSE [passed |-> FALSE,
              errors |-> [k \in 1..Len(cases) |->
                             [column |-> cases[k].column,
                              check |-> cases[k].check,
                              failure_case |-> FailureCase(cases[k].failure_case)]]]

\* ------------------------------------------------------------------------
\* objects_output
\* ------------------------------------------------------------------------

\* json.dump(objects_transform.to_dicts()): one document per row, in row
\* order, a null cell as None and a list cell as its list
objects_output(frame) ==
    [i \in 1..Len(frame.rows) |->
        [object_id       |-> frame.rows[i].object_id,
         title           |-> frame.rows[i].title,
         date_made       |-> frame.rows[i].date_made,
         credit_line     |-> frame.rows[i].credit_line,
         department      |-> frame.rows[i].department,
         dimensions      |-> frame.rows[i].dimensions,
         media           |-> frame.rows[i].media,
         classifications |-> frame.rows[i].classifications,
         constituents    |-> frame.rows[i].constituents]]

\* ------------------------------------------------------------------------
\* Harvested data: the records the harvest functions can read
\* ------------------------------------------------------------------------
Term(id, type, label) == [term_id |-> id, term_type |-> type, label |-> label]

TermRows ==
    {Term("T1", "medium", "Oil"), Term("T1", "nationality", "Dutch"),
     Term("T2", "nationality", "French"), Term("T2", "medium", None)}

TermFrames ==
    {DataFrame(rs, TermColumns, {}) : rs \in SeqsUpTo(TermRows, MaxTerms)}

Ref(type_id, term_id) == [type_id |-> type_id, term_id |-> term_id]

Person(name, role, birth_year, nationality_id) ==
    [name |-> name, role |-> role, birth_year |-> birth_year,
     nationality_id |-> nationality_id]

Dimension(type, value, unit) == [type |-> type, value |-> value, unit |-> unit]

Image(type, scheme) ==
    [type |-> type, url |-> Some([scheme |-> scheme, rest |-> "img/1.jpg"]),
     caption |-> "front"]

\* _parse_object_xml: the record of one object file
ObjectRecord(id, title, date_made, department, constituents, refs, dimensions, media) ==
    [object_id |-> id, title |-> title, date_made |-> date_made,
     credit_line |-> "Gift", department |-> department,
     constituents |-> constituents, classification_ids |-> refs,
     dimensions |-> dimensions, media |-> media]

GoodDimensions == << Dimension("height", 100, "cm") >>

GoodMedia == << Image("primary", "https") >>

GoodPeople == << Person("Ann", "artist", Some(1850), "T2") >>

\* The object files of the data directory: OBJ-004 is clean, OBJ-003 has no
\* date_made and no constituent, OBJ-005 has a dimension of 0.5, OBJ-001
\* has two classifications, OBJ-002 has a donor and no artist
SampleRecords ==
    {ObjectRecord("OBJ-004", "Vase", Some(1889), "Painting", GoodPeople,
                  << Ref("T1", "T1") >>, GoodDimensions, GoodMedia),
     ObjectRecord("OBJ-003", "Bowl", Null, "Painting", <<>>,
                  << Ref("T1", "T1") >>, GoodDimensions, GoodMedia),
     ObjectRecord("OBJ-005", "Jar", Some(1889), "Painting", GoodPeople,
                  << Ref("T1", "T1") >>,
                  << Dimension("height", 5, "cm") >>, GoodMedia),
     ObjectRecord("OBJ-001", "Cup", Some(1889), "Painting", GoodPeople,
                  << Ref("T1", "T2"), Ref("T2", "T1") >>,
                  GoodDimensions, GoodMedia),
     ObjectRecord("OBJ-002", "Urn", Some(1889), "Painting",
                  << Person("Bob", "donor", Null, "T1") >>,
                  <<>>, GoodDimensions, GoodMedia)}

SampleFrames ==
    {DataFrame(rs, ObjectColumns, ListColumns) :
        rs \in SeqsUpTo(SampleRecords, MaxRows)}

\* ------------------------------------------------------------------------
\* The pipeline driver: main() of pipeline_xml.py and of pipeline_json.py
\* ------------------------------------------------------------------------
VARIABLES
    pc,              \* position of main()
    terminology_df,  \* harvested terminology frame
    objects_df,      \* harvested objects frame
    transform_df,    \* frame returned by objects_transform
    passed,          \* first component of check_objects_transform's result
    errors,          \* second component
    unique_errors,   \* the deduplicated summary main() builds
    output,          \* documents written by objects_output
    calls            \* the asset functions called so far, in call order

vars == <<pc, terminology_df, objects_df, transform_df, passed, errors,
          unique_errors, output, calls>>

NoFrame == [columns |-> {}, structs |-> {}, rows |-> <<>>]

Init ==
    /\ pc = "harvest_terminology"
    /\ terminology_df = NoFrame
    /\ objects_df = NoFrame
    /\ transform_df = NoFrame
    /\ passed = FALSE
    /\ errors = <<>>
    /\ unique_errors = <<>>
    /\ output = <<>>
    /\ calls = <<>>

HarvestTerminology ==
    /\ pc = "harvest_terminology"
    /\ \E t \in TermFrames : terminology_df' = t
    /\ pc' = "harvest_objects"
    /\ calls' = Append(calls, "harvest_terminology")
    /\ UNCHANGED <<objects_df, transform_df, passed, errors, unique_errors, output>>

HarvestObjects ==
    /\ pc = "harvest_objects"
    /\ \E o \in SampleFrames : objects_df' = o
    /\ pc' = "objects_transform"
    /\ calls' = Append(calls, "harvest_objects")
    /\ UNCHANGED <<terminology_df, transform_df, passed, errors, unique_errors, output>>

\* Variant: main() catches the exception of objects_transform and goes on
\* with the frame it has
TransformSwallows ==
    /\ pc = "objects_transform"
    /\ calls' = Append(calls, "objects_transform")
    /\ IF TransformRaises(terminology_df, objects_df)
       THEN UNCHANGED transform_df
       ELSE \E frame \in objects_transform(terminology_df, objects_df) :
               transform_df' = frame
    /\ pc' = "check_objects_transform"
    /\ UNCHANGED <<terminology_df, objects_df, passed, errors, unique_errors, output>>

\* transform_df = objects_transform(terminology_df, objects_df); an
\* exception of the collect ends main()
Transform ==
    /\ pc = "objects_transform"
    /\ calls' = Append(calls, "objects_transform")
    /\ IF TransformRaises(terminology_df, objects_df)
       THEN /\ pc' = "raised"
            /\ UNCHANGED transform_df
       ELSE /\ \E frame \in objects_transform(terminology_df, objects_df) :
                  transform_df' = frame
            /\ pc' = "check_objects_transform"
    /\ UNCHANGED <<terminology_df, objects_df, passed, errors, unique_errors, output>>

\* ids = missing_constituents["object_id"].to_list(): the object_ids main()
\* prints for the rows without constituents
MissingConstituentIds(frame) ==
    {frame.rows[i].object_id :
        i \in {j \in 1..Len(frame.rows) :
                  /\ ~IsNull(frame.rows[j].constituents)
                  /\ Len(Value(frame.rows[j].constituents)) = 0}}

\* The object_ids main() prints for the rows whose least dimension value
\* is 1 or less
BadDimensionIds(frame) ==
    {frame.rows[i].object_id :
        i \in {j \in 1..Len(frame.rows) :
                  \E d \in 1..Len(frame.rows[j].dimensions) :
                      frame.rows[j].dimensions[d].value <= DimensionUnit}}

\* The listing of the bad dimensions reads the field 'value' of the list
\* elements, with the expression of all_dimension_values_gt_1: it raises on
\* a dimensions column that holds no struct
ReportRaises(frame) == "dimensions" \notin frame.structs

\* The first record of each (column, check) pair, in order
RECURSIVE Deduplicate(_, _)
Deduplicate(errs, seen) ==
    IF errs = <<>> THEN <<>>
    ELSE LET key == <<Head(errs).column, Head(errs).check>>
         IN  IF key \in seen THEN Deduplicate(Tail(errs), seen)
             ELSE <<Head(errs)>> \o Deduplicate(Tail(errs), seen \cup {key})

\* Variant: validation keeps in transform_df only the rows that break no
\* check
ValidateDropsInvalid ==
    /\ pc = "check_objects_transform"
    /\ calls' = Append(calls, "check_objects_transform")
    /\ LET result == check_objects_transform(transform_df)
       IN  /\ passed' = result.passed
           /\ errors' = result.errors
           /\ unique_errors' = IF result.passed THEN <<>>
                               ELSE Deduplicate(result.errors, {})
    /\ transform_df' =
           [transform_df EXCEPT !.rows =
               SelectSeq(@, LAMBDA r : \A n \in 1..Len(CheckNames) :
                                          CheckResult(CheckNames[n], r) # "false")]
    /\ pc' = IF ~passed' /\ ReportRaises(transform_df)
             THEN "raised" ELSE "objects_output"
    /\ UNCHANGED <<terminology_df, objects_df, output>>

\* passed, errors = check_objects_transform(transform_df), then the summary
\* of the failures and the listing of the bad records; main() goes on to
\* the output stage in both branches unless the listing raises
Validate ==
    /\ pc = "check_objects_transform"
    /\ calls' = Append(calls, "check_objects_transform")
    /\ LET result == check_objects_transform(transform_df)
       IN  /\ passed' = result.passed
           /\ errors' = result.errors
           /\ unique_errors' = IF result.passed THEN <<>>
                               ELSE Deduplicate(result.errors, {})
           /\ pc' = IF ~result.passed /\ ReportRaises(transform_df)
                    THEN "raised" ELSE "objects_output"
    /\ UNCHANGED <<terminology_df, objects_df, transform_df, output>>

\* Variant: main() writes the output as soon as the transform has returned
OutputBeforeCheck ==
    /\ pc \in {"check_objects_transform", "objects_output"}
    /\ calls' = Append(calls, "objects_output")
    /\ output' = objects_output(transform_df)
    /\ pc' = "done"
    /\ UNCHANGED <<terminology_df, objects_df, transform_df, passed, errors,
                   unique_errors>>

\* output_path = objects_output(transform_df), then the sample document of
\* OBJ-004: to_dicts()[0] raises when no row has that object_id
Output ==
    /\ pc = "objects_output"
    /\ calls' = Append(calls, "objects_output")
    /\ output' = objects_output(transform_df)
    /\ pc' = IF \E i \in 1..Len(transform_df.rows) :
                    transform_df.rows[i].object_id = "OBJ-004"
             THEN "done" ELSE "raised"
    /\ UNCHANGED <<terminology_df, objects_df, transform_df, passed, errors,
                   unique_errors>>

Next == HarvestTerminology \/ HarvestObjects \/ Transform \/ Validate \/ Output

Spec == Init /\ [][Next]_vars

\* ------------------------------------------------------------------------
\* objects_transform alone, on every small pair of harvested frames
\* ------------------------------------------------------------------------
ObjectIds == {"OBJ-003", "OBJ-005"}

Refs == {Ref("T1", "T2"), Ref("T2", "T1")}

People == {Person("Ann", "artist", Some(1850), id) : id \in {"T1", "T2"}}

\* Records of one object with n nested elements in all
RecordsOfSize(n) ==
    {ObjectRecord(id, "Vase", Some(1889), "Painting", people, refs,
                  GoodDimensions, GoodMedia) :
        id \in ObjectIds,
        refs \in UNION {[1..k -> Refs] : k \in 0..n},
        people \in UNION {[1..k -> People] : k \in 0..n}}

\* Sequences of n records with at most budget nested elements in all
RECURSIVE RecordSeqs(_, _)
RecordSeqs(n, budget) ==
    IF n = 0 THEN {<<>>}
    ELSE UNION {{<<r>> \o rest :
                    rest \in RecordSeqs(n - 1,
                                budget - Len(r.classification_ids)
                                       - Len(r.constituents))} :
                r \in {q \in RecordsOfSize(budget) :
                          Len(q.classification_ids) + Len(q.constituents)
                              <= budget}}

\* Harvested object frames of at most MaxRows rows and MaxElems nested
\* elements
SmallFrames ==
    {DataFrame(rs, ObjectColumns, ListColumns) :
        rs \in UNION {RecordSeqs(n, MaxElems) : n \in 0..MaxRows}}

InitTransform ==
    /\ pc = "objects_transform"
    /\ terminology_df \in TermFrames
    /\ objects_df \in SmallFrames
    /\ transform_df = NoFrame
    /\ passed = FALSE
    /\ errors = <<>>
    /\ unique_errors = <<>>
    /\ output = <<>>
    /\ calls = <<"harvest_terminology", "harvest_objects">>

SpecTransform == InitTransform /\ [][Transform]_vars

\* ------------------------------------------------------------------------
\* check_objects_transform alone, on small transform frames
\* ------------------------------------------------------------------------
Label(type_label, term_label) ==
    [type_label |-> type_label, term_label |-> term_label]

Constituent(name, role, birth_year, nationality) ==
    [name |-> name, role |-> role, birth_year |-> birth_year,
     nationality |-> nationality]

\* A row of the transform frame that satisfies every rule
CleanRow ==
    [object_id       |-> "OBJ-004",
     title           |-> "Vase",
     date_made       |-> Some(1889),
     credit_line     |-> "Gift",
     department      |-> "Painting",
     dimensions      |-> GoodDimensions,
     media           |-> GoodMedia,
     classifications |-> Some(<< Label("Oil", "Oil") >>),
     constituents    |-> Some(<< Constituent("Ann", "artist", Some(1850), "French") >>)]

VariedColumns ==
    {"title", "date_made", "department", "dimensions", "media",
     "classifications", "constituents"}

\* Other values a column of a transform row can hold
Variants ==
    [title           |-> << "" >>,
     date_made       |-> << Null, Some(2101) >>,
     department      |-> << "Sculpture" >>,
     dimensions      |-> << <<>>, << Dimension("height", 5, "cm") >>,
                            << Dimension("height", 10, "cm") >> >>,
     media           |-> << <<>> >>,
     classifications |-> << Some(<<>>), Some(<< Label("Oil", None) >>) >>,
     constituents    |-> << Some(<<>>),
                            Some(<< Constituent("Bob", "donor", Null, None) >>),
                            Some(<< Constituent("", "artist", Some(1850), "French") >>),
                            Some(<< Constituent("Ann", "artist", Some(1889), "French") >>) >>]

\* Transform rows that differ from CleanRow in exactly k of the varied
\* columns, for each k
RowsDeviating ==
    [k \in 0..MaxDeviations |->
        UNION {UNION {
            {[c \in DOMAIN CleanRow |->
                 IF c \in D THEN Variants[c][choice[c]] ELSE CleanRow[c]]} :
             choice \in {f \in [D -> 1..4] : \A c \in D : f[c] <= Len(Variants[c])}} :
           D \in {E \in SUBSET VariedColumns : Cardinality(E) = k}}]

\* Sequences of n transform rows with at most budget deviations in all
RECURSIVE RowSeqs(_, _)
RowSeqs(n, budget) ==
    IF n = 0 THEN {<<>>}
    ELSE UNION {{<<r>> \o rest :
                    r \in RowsDeviating[k], rest \in RowSeqs(n - 1, budget - k)} :
                k \in 0..budget}

\* Frames objects_transform returns: the enriched columns are lists of
\* structs, dimensions and media keep the dtype harvest inferred
TransformFrame(rows) ==
    [columns |-> TransformColumns,
     structs |-> {c \in {"dimensions", "media"} :
                     \E i \in 1..Len(rows) : Len(rows[i][c]) > 0}
                 \cup {"classifications", "constituents"},
     rows    |-> rows]

\* Identifiers of the rows of a frame, by position
RowIds == << "OBJ-004", "OBJ-003", "OBJ-005", "OBJ-001", "OBJ-002" >>

WithRowIds(rs) ==
    [i \in 1..Len(rs) |-> [rs[i] EXCEPT !.object_id = RowIds[i]]]

ValidateFrames ==
    {TransformFrame(WithRowIds(rs)) :
        rs \in UNION {RowSeqs(n, MaxDeviations) :
                         n \in 1..(IF MaxRows < Len(RowIds) THEN MaxRows ELSE Len(RowIds))}}

InitValidate ==
    /\ pc = "check_objects_transform"
    /\ terminology_df = NoFrame
    /\ objects_df = NoFrame
    /\ transform_df \in ValidateFrames
    /\ passed = FALSE
    /\ errors = <<>>
    /\ unique_errors = <<>>
    /\ output = <<>>
    /\ calls = <<"harvest_terminology", "harvest_objects", "objects_transform">>

SpecValidate == InitValidate /\ [][Validate]_vars

\* ------------------------------------------------------------------------
\* Properties of the driver
\* ------------------------------------------------------------------------
Called(stage) == stage \in Range(calls)

\* objects_transform has returned a frame
Transformed == transform_df # NoFrame

\* check_objects_transform has returned
Validated == Called("check_objects_transform")

TransformRows == Range(transform_df.rows)

SourceRows == Range(objects_df.rows)

\* The error list holds a record of this check whose failure case is the
\* reported form of row r
HasFailure(check, r) ==
    \E k \in 1..Len(errors) :
        /\ errors[k].check = check
        /\ errors[k].failure_case = FailureCase([row |-> r])

RecordsOfCheck(check) == Count(errors, LAMBDA e : e.check = check)

StageOrder ==
    <<"harvest_terminology", "harvest_objects", "objects_transform",
      "check_objects_transform", "objects_output">>

\* C1 (blocking contract): whenever objects_output has been called,
\* check_objects_transform had returned passed = True.
C1_OutputOnlyWhenPassed == Called("objects_output") => passed

\* C2 (stage order): the stages called so far are always an initial part
\* of harvest_terminology, harvest_objects, objects_transform,
\* check_objects_transform, objects_output, so each runs at most once and
\* none starts before the ones it depends on.
C2_StageOrder ==
    /\ Len(calls) <= Len(StageOrder)
    /\ \A i \in 1..Len(calls) : calls[i] = StageOrder[i]

C2_Witness == pc = "done" /\ calls = StageOrder

\* C9 (ambiguous key): when a term_id occurs more than once in the
\* terminology table, objects_transform raises and returns no frame.
DuplicateTermId ==
    \E i, j \in 1..Len(terminology_df.rows) :
        i # j /\ terminology_df.rows[i].term_id = terminology_df.rows[j].term_id

C9_DuplicateTermIdRaises ==
    (Called("objects_transform") /\ DuplicateTermId)
        => (pc = "raised" /\ transform_df = NoFrame)

\* ------------------------------------------------------------------------
\* Properties of objects_transform
\* ------------------------------------------------------------------------

\* C3 (join completeness): in the frame objects_transform returns, the
\* classifications and constituents of a row are as long as
\* classification_ids and constituents of the input row with its object_id.
C3_JoinCompleteness ==
    Transformed =>
        \A o \in TransformRows : \A r \in SourceRows :
            r.object_id = o.object_id =>
                /\ ~IsNull(o.classifications)
                /\ ~IsNull(o.constituents)
                /\ Len(Value(o.classifications)) = Len(r.classification_ids)
                /\ Len(Value(o.constituents)) = Len(r.constituents)

\* C4 (empty-list invariant): classifications and constituents of a
\* returned row are never null, and a row whose source list is empty
\* carries the empty list.
C4_EmptyListInvariant ==
    Transformed =>
        \A o \in TransformRows :
            /\ ~IsNull(o.classifications)
            /\ ~IsNull(o.constituents)
            /\ \A r \in SourceRows :
                  r.object_id = o.object_id =>
                      /\ r.classification_ids = <<>> => o.classifications = Some(<<>>)
                      /\ r.constituents = <<>> => o.constituents = Some(<<>>)

\* Labels of the terminology rows with this term_id; nationality labels are
\* those of the rows of term_type nationality
LabelsOf(id) ==
    {t.label : t \in {q \in Range(terminology_df.rows) : q.term_id = id}}

NationalityLabelsOf(id) ==
    {t.label : t \in {q \in Range(terminology_df.rows) :
                         q.term_id = id /\ q.term_type = "nationality"}}

\* What a left join leaves in the label column: the matches, or null
OrNone(labels) == IF labels = {} THEN {None} ELSE labels

SourceRowsOf(id) == {r \in SourceRows : r.object_id = id}

ExpectedClassifications(id) ==
    UNION {UNION {{Label(a, b) : a \in OrNone(LabelsOf(e.type_id)),
                                 b \in OrNone(LabelsOf(e.term_id))} :
                    e \in Range(r.classification_ids)} :
              r \in SourceRowsOf(id)}

ExpectedConstituents(id) ==
    UNION {UNION {{Constituent(p.name, p.role, p.birth_year, n) :
                      n \in OrNone(NationalityLabelsOf(p.nationality_id))} :
                    p \in Range(r.constituents)} :
              r \in SourceRowsOf(id)}

\* C10 (label resolution): the classification elements of a returned row
\* are exactly the source elements of its object with type_id and term_id
\* replaced by the labels of the matching terminology rows, null where
\* none matches; its constituents are the source constituents with
\* nationality_id replaced by the matching nationality label, null where
\* none matches, and name, role and birth_year unchanged.
C10_LabelResolution ==
    Transformed =>
        \A o \in TransformRows :
            /\ ~IsNull(o.classifications)
            /\ ~IsNull(o.constituents)
            /\ Range(Value(o.classifications)) = ExpectedClassifications(o.object_id)
            /\ Range(Value(o.constituents)) = ExpectedConstituents(o.object_id)

C10_Witness ==
    /\ Transformed
    /\ \E r \in SourceRows :
          /\ \E e \in Range(r.classification_ids) :
                LabelsOf(e.term_id) = {} /\ LabelsOf(e.type_id) # {}
          /\ \E p \in Range(r.constituents) :
                NationalityLabelsOf(p.nationality_id) = {}
                    /\ LabelsOf(p.nationality_id) # {}
          /\ \E o \in TransformRows :
                /\ o.object_id = r.object_id
                /\ \E c \in Range(Value(o.classifications)) :
                      c.term_label = None /\ c.type_label # None
                /\ \E c \in Range(Value(o.constituents)) :
                      c.nationality = None /\ c.name = "Ann"

\* ------------------------------------------------------------------------
\* Properties of check_objects_transform and of the scenarios
\* ------------------------------------------------------------------------

\* The Scenario A row: no date_made and no constituent
ScenarioARow(r) == IsNull(r.date_made) /\ r.constituents = Some(<<>>)

NonEmpty(cell) == ~IsNull(cell) /\ Len(Value(cell)) > 0

LacksArtist(r) ==
    NonEmpty(r.constituents)
        /\ \A c \in Range(Value(r.constituents)) : c.role # "artist"

HasEmptyName(r) ==
    NonEmpty(r.constituents)
        /\ \E c \in Range(Value(r.constituents)) : c.name = ""

HasNullLabel(r) ==
    NonEmpty(r.classifications)
        /\ \E c \in Range(Value(r.classifications)) : c.term_label = None

GuardedChecks ==
    {"no_empty_constituent_names", "has_at_least_one_artist",
     "no_null_labels_in_classifications"}

C6_GuardedChecksShortCircuit ==
    Validated =>
        /\ RecordsOfCheck("has_at_least_one_artist")
               = Count(transform_df.rows, LacksArtist)
        /\ RecordsOfCheck("no_empty_constituent_names")
               = Count(transform_df.rows, HasEmptyName)
        /\ RecordsOfCheck("no_null_labels_in_classifications")
               = Count(transform_df.rows, HasNullLabel)
        /\ \A k \in 1..Len(errors) :
              errors[k].check \in GuardedChecks
                  => "error" \notin DOMAIN errors[k].failure_case
        /\ \A r \in TransformRows :
              /\ r.constituents = Some(<<>>) =>
                    /\ ~HasFailure("has_at_least_one_artist", r)
                    /\ ~HasFailure("no_empty_constituent_names", r)
              /\ r.classifications = Some(<<>>) =>
                    ~HasFailure("no_null_labels_in_classifications", r)

C6_Witness ==
    /\ Validated
    /\ \E r \in TransformRows :
          r.constituents = Some(<<>>) /\ r.classifications = Some(<<>>)
    /\ ~passed

\* C7 (Scenario B): a row with a dimension value of 0.5 makes validation
\* fail with a record of all_dimension_values_gt_1 for that row whose
\* reported failure case shows the offending value 0.5.
C7_ScenarioB ==
    Validated =>
        \A r \in TransformRows :
            (\E d \in Range(r.dimensions) : d.value * 2 = DimensionUnit) =>
                /\ ~passed
                /\ \E k \in 1..Len(errors) :
                      /\ errors[k].check = "all_dimension_values_gt_1"
                      /\ "object_id" \in DOMAIN errors[k].failure_case
                      /\ errors[k].failure_case.object_id = r.object_id
                      /\ "dimensions" \in DOMAIN errors[k].failure_case
                      /\ \E d \in Range(errors[k].failure_case.dimensions) :
                            d.value * 2 = DimensionUnit

\* C8 (Scenario C): when no rule fails, check_objects_transform returns
\* (True, []) and objects_output writes one document per row, as many and
\* in the same order as the rows of the input objects table, each with the
\* classifications and constituents of its row.
C8_ScenarioC ==
    (Validated /\ FailureCases(transform_df) = <<>>) =>
        /\ passed
        /\ errors = <<>>
        /\ Called("objects_output") =>
              /\ Len(output) = Len(objects_df.rows)
              /\ \A i \in 1..Len(output) :
                    /\ output[i].object_id = objects_df.rows[i].object_id
                    /\ output[i].classifications = transform_df.rows[i].classifications
                    /\ output[i].constituents = transform_df.rows[i].constituents

\* ------------------------------------------------------------------------
\* Enrichment failures, determinism and row order
\* ------------------------------------------------------------------------

\* Some nested element of the harvested objects has a type_id, term_id or
\* nationality_id without a match in the terminology table
UnmatchedKey ==
    \E r \in SourceRows :
        \/ \E e \in Range(r.classification_ids) :
              LabelsOf(e.type_id) = {} \/ LabelsOf(e.term_id) = {}
        \/ \E p \in Range(r.constituents) :
              NationalityLabelsOf(p.nationality_id) = {}

\* C11 (enrichment failures surface): when a foreign key of a nested
\* element had no match in the terminology table, so that
\* objects_transform left a null label, check_objects_transform on that
\* output returns passed = False.
C11_EnrichmentFailuresSurface == (Validated /\ UnmatchedKey) => ~passed

\* C12 (determinism of Transform): every execution of objects_transform on
\* the terminology table and the objects table of this run returns the
\* frame this run obtained: same columns, same rows in the same order, same
\* elements in the same order in every nested list.
C12_TransformDeterministic ==
    Transformed =>
        \A frame \in objects_transform(terminology_df, objects_df) :
            frame = transform_df

\* C13 (row order and count): the frame objects_transform returns has as
\* many rows as the input objects table, and its i-th row has the object_id
\* of the i-th input row.
C13_RowOrderAndCount ==
    Transformed =>
        /\ Len(transform_df.rows) = Len(objects_df.rows)
        /\ \A i \in 1..Len(transform_df.rows) :
              transform_df.rows[i].object_id = objects_df.rows[i].object_id

\* ------------------------------------------------------------------------
\* Properties of the validation run
\* ------------------------------------------------------------------------

Rotate(s, n) == [i \in 1..Len(s) |-> s[((i + n - 1) % Len(s)) + 1]]

\* Other orders in which the checks can be declared
PermutedOrders ==
    {Reverse(CheckNames)} \cup {Rotate(CheckNames, n) : n \in 1..(Len(CheckNames) - 1)}

\* The set of records check_objects_transform reports when the checks are
\* declared in the order `names'
ReportIn(frame, names) ==
    {[column |-> c.column, check |-> c.check,
      failure_case |-> FailureCase(c.failure_case)] :
        c \in Range(FieldFailures(frame.rows) \o ChecksIn(frame, names))}

\* C14 (check independence): with the checks declared in any other order,
\* check_objects_transform on the same table gives the same pass/fail
\* decision and the same set of (column, check, offending row) records.
C14_CheckIndependence ==
    Validated =>
        \A names \in PermutedOrders :
            /\ ReportIn(transform_df, names) = Range(errors)
            /\ passed = (ReportIn(transform_df, names) = {})

C14_Witness ==
    /\ Validated
    /\ \E i, j \in 1..Len(errors) :
          /\ errors[i].column = SchemaName
          /\ errors[j].column = SchemaName
          /\ errors[i].check # errors[j].check

\* The expression of a declared check can be evaluated on this frame
CheckCompletes(frame, name) ==
    CheckStructColumn(name) = None \/ CheckStructColumn(name) \in frame.structs

\* C15 (engine error is distinct): a declared check whose evaluation
\* raises is not reported among the failure records, which stand for
\* completed checks that found violating rows.
C15_EngineErrorDistinct ==
    Validated =>
        \A k \in 1..Len(errors) :
            errors[k].column = SchemaName
                => CheckCompletes(transform_df, errors[k].check)

\* Row r breaks the declared check `name'
Violates(frame, name, r) ==
    CheckCompletes(frame, name) /\ CheckResult(name, r) = "false"

\* C16 (report granularity): when validation fails, every check that some
\* row violates has a record in the errors and an entry in the summary,
\* and every record of a violation names a column of the table and the
\* object_id of an offending row.
C16_ReportGranularity ==
    (Validated /\ ~passed) =>
        /\ \A n \in Range(CheckNames) :
              (\E r \in TransformRows : Violates(transform_df, n, r)) =>
                  /\ \E k \in 1..Len(errors) : errors[k].check = n
                  /\ \E k \in 1..Len(unique_errors) : unique_errors[k].check = n
        /\ \A k \in 1..Len(errors) :
              "error" \notin DOMAIN errors[k].failure_case =>
                  /\ errors[k].column \in transform_df.columns
                  /\ "object_id" \in DOMAIN errors[k].failure_case
                  /\ \E r \in TransformRows :
                        r.object_id = errors[k].failure_case.object_id

\* Length of the failure_case string of a record: the JSON of the shown
\* columns of a failing row, the text of an offending value, or the text
\* of an exception
ReportedWidth(e) ==
    IF "error" \in DOMAIN e.failure_case THEN Len(e.failure_case.error)
    ELSE IF "value" \in DOMAIN e.failure_case
    THEN CASE e.column = "date_made" -> JsonInt(e.failure_case.value)
           [] e.column \in {"classifications", "constituents"} -> 4
           [] OTHER -> IF e.failure_case.value = None THEN 4
                       ELSE Len(e.failure_case.value)
    ELSE JsonEnd(e.failure_case, Cardinality(DOMAIN e.failure_case))

\* C17 (bad data never raises out of Validate): on a table that violates
\* a rule, check_objects_transform returns (False, failures) with one
\* record per failure case instead of raising, and the failure_case of
\* every record is at most 80 characters long.
C17_BadDataNeverRaises ==
    (Validated /\ FailureCases(transform_df) # <<>>) =>
        /\ ~passed
        /\ Len(errors) = Len(FailureCases(transform_df))
        /\ \A k \in 1..Len(errors) : ReportedWidth(errors[k]) <= FailureCaseCap

C17_Witness ==
    /\ Validated
    /\ ~passed
    /\ \E k \in 1..Len(errors) :
          /\ errors[k].check = "all_dimension_values_gt_1"
          /\ "object_id" \in DOMAIN errors[k].failure_case
          /\ "dimensions" \notin DOMAIN errors[k].failure_case

\* ------------------------------------------------------------------------
\* Errors, purity and evaluation counts in the driver
\* ------------------------------------------------------------------------

\* C18 (structural errors are fatal): when objects_transform is given a
\* table lacking a column it references, or a column to unnest that holds
\* no struct, the call raises, main() ends there with no frame, and
\* neither check_objects_transform nor objects_output is run.
C18_StructuralErrorsFatal ==
    (Called("objects_transform") /\ TransformRaises(terminology_df, objects_df)) =>
        /\ pc = "raised"
        /\ transform_df = NoFrame
        /\ ~Called("check_objects_transform")
        /\ ~Called("objects_output")
        /\ output = <<>>

C18_Witness ==
    /\ pc = "raised"
    /\ Called("objects_transform")
    /\ ~(ObjectColumns \subseteq objects_df.columns)
    /\ TermColumns \subseteq terminology_df.columns

\* C19 (purity): the step of objects_transform leaves terminology_df and
\* objects_df as they are, the steps of check_objects_transform and of
\* objects_output leave transform_df as it is, and objects_output writes
\* the documents of the very frame whose validation gave passed and errors.
C19_Purity ==
    [][/\ pc = "objects_transform" =>
              /\ terminology_df' = terminology_df
              /\ objects_df' = objects_df
       /\ pc \in {"check_objects_transform", "objects_output"} =>
              transform_df' = transform_df
       /\ pc = "objects_output" =>
              /\ output' = objects_output(transform_df)
              /\ passed = check_objects_transform(transform_df).passed
              /\ errors = check_objects_transform(transform_df).errors]_vars

C19_Witness ==
    /\ pc = "done"
    /\ Len(output) = Len(transform_df.rows)
    /\ Len(output) > 1
    /\ ~passed

TimesCalled(cs, stage) == Cardinality({i \in 1..Len(cs) : cs[i] = stage})

\* Records a single evaluation of the check `name' on the frame yields
EvaluatedOnce(frame, name) ==
    IF CheckCompletes(frame, name)
    THEN Count(frame.rows, LAMBDA r : CheckResult(name, r) = "false")
    ELSE 1

\* C20 (at-most-once evaluation): check_objects_transform is never called
\* twice in a run and is called exactly once in a run that gets past
\* objects_transform; the call leaves, for each declared check, the
\* records of one evaluation on the frame it was given; passed and errors
\* are not changed by any later step.
C20_AtMostOnce ==
    [][/\ TimesCalled(calls', "check_objects_transform") <= 1
       /\ pc' \in {"objects_output", "done"} =>
              TimesCalled(calls', "check_objects_transform") = 1
       /\ pc = "check_objects_transform" =>
              \A n \in 1..Len(CheckNames) :
                  Cardinality({k \in 1..Len(errors') :
                                  errors'[k].check = CheckNames[n]})
                      = EvaluatedOnce(transform_df, CheckNames[n])
       /\ pc # "check_objects_transform" =>
              passed' = passed /\ errors' = errors]_vars

C20_Witness ==
    /\ pc = "done"
    /\ TimesCalled(calls, "check_objects_transform") = 1
    /\ \E k \in 1..Len(errors) : errors[k].column = SchemaName

\* ------------------------------------------------------------------------
\* Return contract and the two drivers
\* ------------------------------------------------------------------------

\* C21 (return contract): check_objects_transform returns passed = True
\* exactly when the failure list it returns is empty.
C21_ReturnContract == Validated => (passed <=> errors = <<>>)

C21_Witness ==
    /\ Validated
    /\ ~passed
    /\ Len(errors) > 1
    /\ \A k \in 1..Len(errors) : errors[k].column = SchemaName

\* objects_output of pipeline_json.py: json.dump of to_dicts() of the frame,
\* one document per row in row order, every column of the row
objects_output_json(frame) ==
    [i \in 1..Len(frame.rows) |->
        [c \in TransformColumns |-> frame.rows[i][c]]]

\* The asset functions main() of pipeline_json.py calls, in call order
JsonStageOrder ==
    <<"harvest_terminology", "harvest_objects", "objects_transform",
      "check_objects_transform", "objects_output">>

\* C22 (source-format independence): when the XML pipeline has written its
\* output, the JSON pipeline run on equal harvest tables goes through the
\* same stages and obtains the same transform frame, the same validation
\* result and the same documents.
C22_SourceFormatIndependence ==
    Called("objects_output") =>
        /\ JsonStageOrder = StageOrder
        /\ \A frame \in objects_transform(terminology_df, objects_df) :
              /\ frame = transform_df
              /\ check_objects_transform(frame).passed = passed
              /\ check_objects_transform(frame).errors = errors
              /\ objects_output_json(frame) = output

\* ------------------------------------------------------------------------
\* check_objects_transform on frames built around one probe row
\* ------------------------------------------------------------------------
ProbeColumns ==
    {"title", "date_made", "department", "dimensions", "media", "constituents"}

\* Other values a column of the probe row can hold
ProbeVariants ==
    [title        |-> << "" >>,
     date_made    |-> << Null, Some(0), Some(2100), Some(2101), Some(-1) >>,
     department   |-> << "Sculpture" >>,
     dimensions   |-> << <<>>,
                         << Dimension("height", 5, "cm") >>,
                         << Dimension("height", 10, "cm") >>,
                         << Dimension("height", 100, "cm"),
                            Dimension("depth", 100, "cm") >>,
                         << Dimension("width", 100, "cm") >>,
                         << Dimension("height", 100, "in") >>,
                         << Dimension("height", 100, "cm"),
                            Dimension("height", 5, "cm") >> >>,
     media        |-> << <<>>,
                         << Image("primary", "http") >>,
                         << Image("detail", "https") >>,
                         << Image("primary", "https"), Image("primary", "https") >> >>,
     constituents |-> << Some(<<>>),
                         Some(<< Constituent("Bob", "donor", Null, None) >>),
                         Some(<< Constituent("Ann", "artist", Some(1889), "French") >>),
                         Some(<< Constituent("Ann", "artist", Some(1890), "French") >>),
                         Some(<< Constituent("Ann", "artist", Some(1850), "French"),
                                 Constituent("Bob", "artist", Null, None) >>) >>]

\* Probe rows: CleanRow changed in exactly k columns, for each k
ProbeRows ==
    [k \in 0..MaxDeviations |->
        UNION {{[c \in DOMAIN CleanRow |->
                    IF c \in D THEN ProbeVariants[c][choice[c]] ELSE CleanRow[c]] :
                  choice \in {f \in [D -> 1..7] :
                                 \A c \in D : f[c] <= Len(ProbeVariants[c])}} :
               D \in {E \in SUBSET ProbeColumns : Cardinality(E) = k}}]

\* Rows that can stand at position i beside the probe row: a clean row, a
\* row without dimensions and media, a clean row repeating the object_id
\* of the probe row
FillerRows(i) ==
    {[CleanRow EXCEPT !.object_id = RowIds[i]],
     [CleanRow EXCEPT !.object_id = RowIds[i], !.dimensions = <<>>, !.media = <<>>],
     CleanRow}

RECURSIVE FillerSeqs(_, _)
FillerSeqs(i, n) ==
    IF i > n THEN {<<>>}
    ELSE {<<r>> \o rest : r \in FillerRows(i), rest \in FillerSeqs(i + 1, n)}

\* Frames of at most MaxRows rows whose first row is a probe row
CheckFrames ==
    {TransformFrame(<<p>> \o rest) :
        p \in UNION {ProbeRows[k] : k \in 0..MaxDeviations},
        rest \in UNION {FillerSeqs(2, n) :
                           n \in 1..(IF MaxRows < Len(RowIds) THEN MaxRows
                                     ELSE Len(RowIds))}}

InitChecks ==
    /\ pc = "check_objects_transform"
    /\ terminology_df = NoFrame
    /\ objects_df = NoFrame
    /\ transform_df \in CheckFrames
    /\ passed = FALSE
    /\ errors = <<>>
    /\ unique_errors = <<>>
    /\ output = <<>>
    /\ calls = <<"harvest_terminology", "harvest_objects", "objects_transform">>

SpecChecks == InitChecks /\ [][Validate]_vars


\* ------------------------------------------------------------------------
\* Per-check semantics
\* ------------------------------------------------------------------------
\* Failure cases of the records of a check, in the order of the error list
ReportedRows(check) ==
    LET recs == SelectSeq(errors, LAMBDA e : e.check = check)
    IN  [k \in 1..Len(recs) |-> recs[k].failure_case]

\* Reported form of the rows of the validated table that satisfy Bad, in
\* row order
ExpectedRows(Bad(_)) ==
    LET idx == RowsWhere(transform_df.rows, Bad)
    IN  [k \in 1..Len(idx) |-> FailureCase([row |-> transform_df.rows[idx[k]]])]

\* Some dimension of the row has a value of 1 or less
HasValueLe1(r) ==
    \E i \in 1..Len(r.dimensions) : r.dimensions[i].value <= DimensionUnit

\* C23 (all_dimension_values_gt_1): the check fails exactly the rows that
\* hold a dimension value <= 1; a row with an empty dimensions list passes,
\* a row with a value equal to 1 fails.
C23_DimensionValuesGt1 ==
    Validated =>
        ReportedRows("all_dimension_values_gt_1") = ExpectedRows(HasValueLe1)


\* The row has no dimension of type 'height'
LacksHeight(r) ==
    ~ \E i \in 1..Len(r.dimensions) : r.dimensions[i].type = "height"

\* Some dimension of the row has a unit other than 'cm'
HasOtherUnit(r) ==
    \E i \in 1..Len(r.dimensions) : r.dimensions[i].unit # "cm"

\* Some media element of the row has a url that is not https
HasOtherScheme(r) ==
    \E i \in 1..Len(r.media) :
        ~IsNull(r.media[i].url) /\ Value(r.media[i].url).scheme # "https"

\* The number of media elements of type 'primary' is not exactly one
NotOnePrimary(r) ==
    Cardinality({i \in 1..Len(r.media) : r.media[i].type = "primary"}) # 1

\* C24 (aggregate semantics): has_height_dimension (ANY) fails a row with
\* an empty list; all_units_are_cm and all_urls_are_https (ALL) pass a row
\* with an empty list and fail exactly the rows with an offending element;
\* has_primary_image (COUNT) passes a row exactly when one media element
\* has type 'primary'.
C24_AggregateSemantics ==
    Validated =>
        /\ ReportedRows("has_height_dimension") = ExpectedRows(LacksHeight)
        /\ ReportedRows("all_units_are_cm") = ExpectedRows(HasOtherUnit)
        /\ ReportedRows("all_urls_are_https") = ExpectedRows(HasOtherScheme)
        /\ ReportedRows("has_primary_image") = ExpectedRows(NotOnePrimary)


\* The row is in department 'Sculpture' and has no dimension of type 'depth'
SculptureWithoutDepth(r) ==
    /\ r.department = "Sculpture"
    /\ ~ \E i \in 1..Len(r.dimensions) : r.dimensions[i].type = "depth"

\* C25 (sculpture_must_have_depth): a row passes exactly when its
\* department is not 'Sculpture' or its dimensions contain an element of
\* type 'depth'; a non-Sculpture row passes whatever its dimensions, a
\* Sculpture row with empty dimensions fails.
C25_SculptureMustHaveDepth ==
    Validated =>
        ReportedRows("sculpture_must_have_depth")
            = ExpectedRows(SculptureWithoutDepth)


\* The row has a date_made and a constituent whose known birth year is not
\* strictly before it
BornTooLate(r) ==
    /\ ~IsNull(r.date_made)
    /\ ~IsNull(r.constituents)
    /\ \E i \in 1..Len(Value(r.constituents)) :
          /\ ~IsNull(Value(r.constituents)[i].birth_year)
          /\ Value(Value(r.constituents)[i].birth_year) >= Value(r.date_made)

\* C26 (constituent_born_before_artwork): a row passes exactly when its
\* date_made is null, or no constituent has a known birth_year, or every
\* known birth_year is strictly less than date_made; a birth_year equal to
\* date_made fails; null birth years and an empty constituents list cause
\* neither a failure nor an error.
C26_BornBeforeArtwork ==
    Validated =>
        ReportedRows("constituent_born_before_artwork") = ExpectedRows(BornTooLate)

\* A validated table with a row whose constituent was born in the year the
\* work was made, reported by the check
C26_Witness ==
    /\ Validated
    /\ \E i \in 1..Len(transform_df.rows) :
          LET r == transform_df.rows[i]
          IN  /\ r.date_made = Some(1889)
              /\ r.constituents
                    = Some(<< Constituent("Ann", "artist", Some(1889), "French") >>)
              /\ HasFailure("constituent_born_before_artwork", r)


\* ------------------------------------------------------------------------
\* The summary of the driver
\* ------------------------------------------------------------------------
PairOf(e) == <<e.column, e.check>>

\* Position in errs of the first record of a (column, check) pair
FirstIndex(errs, pair) ==
    CHOOSE k \in 1..Len(errs) :
        /\ PairOf(errs[k]) = pair
        /\ \A j \in 1..(k - 1) : PairOf(errs[j]) # pair

\* unique_errors holds, for each (column, check) pair of errors, its first
\* record, in order of first occurrence
SummaryIsFirstOccurrences ==
    /\ {PairOf(unique_errors[k]) : k \in 1..Len(unique_errors)}
          = {PairOf(errors[k]) : k \in 1..Len(errors)}
    /\ \A k \in 1..Len(unique_errors) :
          unique_errors[k] = errors[FirstIndex(errors, PairOf(unique_errors[k]))]
    /\ \A k1, k2 \in 1..Len(unique_errors) :
          k1 < k2 => FirstIndex(errors, PairOf(unique_errors[k1]))
                        < FirstIndex(errors, PairOf(unique_errors[k2]))

\* The object_ids the run exposes for a (column, check) pair: those shown in
\* the failure cases of its records, and those main() lists for the rows
\* without constituents and with bad dimensions
ExposedKeys(pair) ==
    {errors[k].failure_case.object_id :
        k \in {j \in 1..Len(errors) :
                  /\ PairOf(errors[j]) = pair
                  /\ "object_id" \in DOMAIN errors[j].failure_case}}
    \cup (IF pair[2] = "has_at_least_one_constituent"
          THEN MissingConstituentIds(transform_df) ELSE {})
    \cup (IF pair[2] = "all_dimension_values_gt_1" /\ pc # "raised"
          THEN BadDimensionIds(transform_df) ELSE {})

\* C27 (report deduplication): after the dedup loop unique_errors holds
\* exactly one entry per distinct (column, check) pair of errors, its first
\* occurrence, in order of first occurrence; no pair is lost, and for every
\* pair the object_ids of offending rows remain available beside the
\* summary.
C27_ReportDeduplication ==
    (Validated /\ ~passed) =>
        /\ SummaryIsFirstOccurrences
        /\ \A k \in 1..Len(unique_errors) :
              /\ ExposedKeys(PairOf(unique_errors[k])) # {}
              /\ ExposedKeys(PairOf(unique_errors[k]))
                    \subseteq {r.object_id : r \in TransformRows}


\* ------------------------------------------------------------------------
\* Columns and element order of the transform output
\* ------------------------------------------------------------------------
PassThroughColumns ==
    {"object_id", "title", "date_made", "credit_line", "department",
     "dimensions", "media"}

\* C28 (pass-through columns): every row objects_transform returns carries
\* object_id, title, date_made, credit_line, department, dimensions and
\* media with the values of a source row, every source row is carried by a
\* returned row, and the columns of the result are these seven plus
\* classifications and constituents, without classification_ids.
C28_PassThroughColumns ==
    Transformed =>
        /\ transform_df.columns
              = PassThroughColumns \cup {"classifications", "constituents"}
        /\ "classification_ids" \notin transform_df.columns
        /\ \A o \in TransformRows :
              /\ DOMAIN o = transform_df.columns
              /\ \E r \in SourceRows : \A c \in PassThroughColumns : o[c] = r[c]
        /\ \A r \in SourceRows :
              \E o \in TransformRows : \A c \in PassThroughColumns : o[c] = r[c]

\* A returned frame with two rows that differ in title, date_made and
\* dimensions
C28_Witness ==
    /\ Transformed
    /\ \E o1, o2 \in TransformRows :
          /\ o1.object_id = "OBJ-003" /\ o1.title = "Bowl" /\ IsNull(o1.date_made)
          /\ o2.object_id = "OBJ-005" /\ o2.title = "Jar"
          /\ o2.dimensions = << Dimension("height", 5, "cm") >>


\* Element o of an output list is the resolved form of source element e
ClassificationOf(o, e) ==
    /\ o.type_label \in OrNone(LabelsOf(e.type_id))
    /\ o.term_label \in OrNone(LabelsOf(e.term_id))

ConstituentOf(o, p) ==
    /\ o.name = p.name
    /\ o.role = p.role
    /\ o.birth_year = p.birth_year
    /\ o.nationality \in OrNone(NationalityLabelsOf(p.nationality_id))

\* C29 (element order preservation): the j-th element of the
\* classifications (constituents) list of a returned row is the resolved
\* form of the j-th element of the classification_ids (constituents) list
\* of the source row with its object_id.
C29_ElementOrderPreserved ==
    Transformed =>
        \A o \in TransformRows : \A r \in SourceRowsOf(o.object_id) :
            /\ ~IsNull(o.classifications)
            /\ ~IsNull(o.constituents)
            /\ Len(Value(o.classifications)) = Len(r.classification_ids)
            /\ Len(Value(o.constituents)) = Len(r.constituents)
            /\ \A j \in 1..Len(r.classification_ids) :
                  ClassificationOf(Value(o.classifications)[j], r.classification_ids[j])
            /\ \A j \in 1..Len(r.constituents) :
                  ConstituentOf(Value(o.constituents)[j], r.constituents[j])


\* ------------------------------------------------------------------------
\* Scalar field rules
\* ------------------------------------------------------------------------
DateInRange(r) ==
    IsNull(r.date_made) \/ (0 <= Value(r.date_made) /\ Value(r.date_made) <= 2100)

\* The row is a clean row but for its object_id and a date_made that is
\* null, 2100 or a year within the range
CleanButDate(r) ==
    \E d \in {Null, Some(2100), Some(1889)} :
        r = [CleanRow EXCEPT !.object_id = r.object_id, !.date_made = d]

\* C30 (scalar field rules): check_objects_transform returns passed = False
\* whenever two rows share an object_id, a title is the empty string, or a
\* non-null date_made lies outside 0..2100; a null date_made and the
\* boundary values 0 and 2100 yield no failure of date_made, and a table
\* that is clean but for such dates passes.
C30_ScalarFieldRules ==
    Validated =>
        LET rows == transform_df.rows
        IN  /\ (\E i, j \in 1..Len(rows) :
                   i # j /\ rows[i].object_id = rows[j].object_id) => ~passed
            /\ (\E i \in 1..Len(rows) : rows[i].title = "") => ~passed
            /\ (\E i \in 1..Len(rows) : ~DateInRange(rows[i])) => ~passed
            /\ \A i \in 1..Len(rows) :
                  DateInRange(rows[i]) =>
                      ~ \E k \in 1..Len(errors) :
                            /\ errors[k].column = "date_made"
                            /\ errors[k].failure_case = [value |-> rows[i].date_made]
            /\ ( /\ \A i \in 1..Len(rows) : CleanButDate(rows[i])
                 /\ \A i, j \in 1..Len(rows) :
                       i # j => rows[i].object_id # rows[j].object_id ) => passed

\* A validated table with a row dated 0 that fails no rule of date_made,
\* beside a row that repeats its object_id
C30_Witness ==
    /\ Validated
    /\ ~passed
    /\ Len(transform_df.rows) = 2
    /\ transform_df.rows[1].date_made = Some(0)
    /\ transform_df.rows[2].object_id = transform_df.rows[1].object_id
    /\ \E k \in 1..Len(errors) : errors[k].check = "field_uniqueness"
    /\ \A k \in 1..Len(errors) : errors[k].column # "date_made"

====
